---------------------------- MODULE Spec2Model ----------------------------
(***************************************************************************)
(* Model of pyethereum/wireprotocol.py: the packet codec (Packeter) and    *)
(* the protocol engine (WireProtocol).                                     *)
(*                                                                         *)
(* Python values are modelled as tagged records:                           *)
(*   [s |-> <<bytes>>]   a str (byte string), bytes are 0..255             *)
(*   [l |-> <<values>>]  a list                                            *)
(*   [i |-> n]           an int                                            *)
(*   [none |-> TRUE]     None                                              *)
(***************************************************************************)
EXTENDS Integers, Sequences, FiniteSets, TLC

VARIABLES
    connected_peers,             \* peer_manager.connected_peers
    hello_sent,                  \* peer.hello_sent, per peer
    hello_received,              \* peer.hello_received, per peer
    node_id,                     \* peer.node_id, per peer
    last_valid_packet_received,  \* peer.last_valid_packet_received, per peer
    sent,                        \* per peer: what was handed to peer.send_packet, in order
    calls,                       \* calls made to the collaborators, in order
    known_peer_addresses,        \* what peer_manager.get_known_peer_addresses() returns
    now,                         \* time.time()
    pc,                          \* per peer thread: "idle" or "sleep" (inside time.sleep(2))
    wake,                        \* per peer thread: the time at which time.sleep(2) may return
    call,                        \* per peer: record of the current / last call on that thread
    last,                        \* history: the peer and operation of the latest step
    pre,                         \* history: the engine state before the latest step
    steps,                       \* number of engine calls made so far
    out_queue,                   \* chain_manager_out_proxy: the commands not yet taken
    drain,                       \* the current / last call of send_chain_out_cmd: its state,
                                 \* the command its latest turn took, the queue before that
                                 \* turn, and the number of commands put so far
    codec                        \* the Packeter on its own: an input and what it makes of it

vars == <<connected_peers, hello_sent, hello_received, node_id,
          last_valid_packet_received, sent, calls, known_peer_addresses,
          now, pc, wake, call, last, pre, steps, out_queue, drain, codec>>

(***************************************************************************)
(* Bounds of the model.                                                    *)
(***************************************************************************)
MaxSteps == 2
MaxTime == 1
\* the number of commands the chain manager puts on the queue
MaxPuts == 2

Peers == {"p1", "p2"}

(***************************************************************************)
(* Python values.                                                          *)
(***************************************************************************)
S(b) == [s |-> b]
L(e) == [l |-> e]
I(n) == [i |-> n]
None == [none |-> TRUE]

IsStr(v) == DOMAIN v = {"s"}
IsList(v) == DOMAIN v = {"l"}
IsInt(v) == DOMAIN v = {"i"}
IsNone(v) == DOMAIN v = {"none"}

\* Python truthiness: None, '', [] and 0 are false.
Truthy(v) ==
    IF IsNone(v) THEN FALSE
    ELSE IF IsStr(v) THEN Len(v.s) > 0
    ELSE IF IsList(v) THEN Len(v.l) > 0
    ELSE v.i # 0

\* Python slice seq[a:b] (0-based, clipped to the sequence).
Slice(seq, a, b) ==
    LET hi == IF b < Len(seq) THEN b ELSE Len(seq)
    IN  IF a >= hi THEN <<>> ELSE SubSeq(seq, a + 1, hi)

(***************************************************************************)
(* utils: big endian integers.                                             *)
(***************************************************************************)
RECURSIVE big_endian_to_int(_)
\* idec: a byte string as a big-endian integer ('' is 0).
big_endian_to_int(b) ==
    IF Len(b) = 0 THEN 0
    ELSE 256 * big_endian_to_int(SubSeq(b, 1, Len(b) - 1)) + b[Len(b)]

RECURSIVE int_to_big_endian(_)
\* the shortest big-endian byte string of n (0 is '').
int_to_big_endian(n) ==
    IF n = 0 THEN <<>>
    ELSE Append(int_to_big_endian(n \div 256), n % 256)

\* ienc4: n as exactly 4 big-endian bytes.
int_to_big_endian4(n) ==
    << (n \div 16777216) % 256, (n \div 65536) % 256, (n \div 256) % 256, n % 256 >>

RECURSIVE recursive_int_to_big_endian(_)
recursive_int_to_big_endian(item) ==
    IF IsInt(item) THEN S(int_to_big_endian(item.i))
    ELSE IF IsList(item)
         THEN L([k \in 1..Len(item.l) |-> recursive_int_to_big_endian(item.l[k])])
         ELSE item

(***************************************************************************)
(* rlp: the structured encoding primitive.                                 *)
(***************************************************************************)
RECURSIVE Concat(_)
Concat(seqs) ==
    IF Len(seqs) = 0 THEN <<>> ELSE Head(seqs) \o Concat(Tail(seqs))

\* the length prefix of a string (offset 128) or a list (offset 192).
rlp_length_prefix(n, offset) ==
    IF n < 56 THEN <<offset + n>>
    ELSE LET bl == int_to_big_endian(n)
         IN  <<offset + 55 + Len(bl)>> \o bl

\* body behind its length prefix
rlp_with_prefix(body, offset) == rlp_length_prefix(Len(body), offset) \o body

RECURSIVE rlp_encode(_)
rlp_encode(v) ==
    IF IsStr(v)
    THEN IF Len(v.s) = 1 /\ v.s[1] < 128
         THEN v.s
         ELSE rlp_length_prefix(Len(v.s), 128) \o v.s
    ELSE rlp_with_prefix(Concat([k \in 1..Len(v.l) |-> rlp_encode(v.l[k])]), 192)

RlpFail == [ok |-> FALSE]

RECURSIVE rlp_decode_item(_, _, _)
RECURSIVE rlp_decode_items(_, _, _, _)
RECURSIVE rlp_decode_rest(_, _, _, _)
\* one item of b starting at 0-based position pos and ending before end:
\* [ok, v, next], or RlpFail when the bytes run out.
rlp_decode_item(b, pos, end) ==
    IF pos >= end THEN RlpFail
    ELSE LET f == b[pos + 1] IN
         IF f < 128 THEN [ok |-> TRUE, v |-> S(<<f>>), next |-> pos + 1]
         ELSE IF f < 184
         THEN LET n == f - 128 IN
              IF pos + 1 + n > end THEN RlpFail
              ELSE [ok |-> TRUE, v |-> S(Slice(b, pos + 1, pos + 1 + n)),
                    next |-> pos + 1 + n]
         ELSE IF f < 192
         THEN LET ll == f - 183 IN
              IF pos + 1 + ll > end THEN RlpFail
              ELSE LET n == big_endian_to_int(Slice(b, pos + 1, pos + 1 + ll)) IN
                   IF pos + 1 + ll + n > end THEN RlpFail
                   ELSE [ok |-> TRUE,
                         v |-> S(Slice(b, pos + 1 + ll, pos + 1 + ll + n)),
                         next |-> pos + 1 + ll + n]
         ELSE IF f < 248
         THEN LET n == f - 192 IN
              IF pos + 1 + n > end THEN RlpFail
              ELSE rlp_decode_items(b, pos + 1, pos + 1 + n, <<>>)
         ELSE LET ll == f - 247 IN
              IF pos + 1 + ll > end THEN RlpFail
              ELSE LET n == big_endian_to_int(Slice(b, pos + 1, pos + 1 + ll)) IN
                   IF pos + 1 + ll + n > end THEN RlpFail
                   ELSE rlp_decode_items(b, pos + 1 + ll, pos + 1 + ll + n, <<>>)

\* the items of a list body b[pos:end], appended to acc.
rlp_decode_items(b, pos, end, acc) ==
    IF pos = end THEN [ok |-> TRUE, v |-> L(acc), next |-> end]
    ELSE rlp_decode_rest(b, rlp_decode_item(b, pos, end), end, acc)

\* the items after r, the first one decoded
rlp_decode_rest(b, r, end, acc) ==
    IF ~r.ok THEN RlpFail
    ELSE rlp_decode_items(b, r.next, end, Append(acc, r.v))

\* r is the value of b when it ends where b ends
rlp_decode_whole(r, n) ==
    IF r.ok /\ r.next = n THEN [ok |-> TRUE, v |-> r.v] ELSE RlpFail

\* rlp.decode: the value the whole of b encodes, or a failure.
rlp_decode(b) == rlp_decode_whole(rlp_decode_item(b, 0, Len(b)), Len(b))

\* if isinstance(d, str): d = [d]
as_list(d) ==
    IF ~d.ok THEN d
    ELSE IF IsStr(d.v) THEN [ok |-> TRUE, v |-> L(<<d.v>>)] ELSE d

\* "always return a list"
lrlp_decode(data) == as_list(rlp_decode(data))

(***************************************************************************)
(* Packeter.                                                               *)
(***************************************************************************)
cmd_map ==
    [x \in {0, 1, 2, 3, 16, 17, 18, 19, 20, 21, 22} |->
        CASE x = 0 -> "Hello"
          [] x = 1 -> "Disconnect"
          [] x = 2 -> "Ping"
          [] x = 3 -> "Pong"
          [] x = 16 -> "GetPeers"
          [] x = 17 -> "Peers"
          [] x = 18 -> "Transactions"
          [] x = 19 -> "Blocks"
          [] x = 20 -> "GetChain"
          [] x = 21 -> "NotInChain"
          [] x = 22 -> "GetTransactions"]

disconnect_reasons_map ==
    [r \in {"Disconnect requested", "TCP sub-system error", "Bad protocol",
            "Useless peer", "Too many peers", "Already connected",
            "Wrong genesis block", "Incompatible network protocols",
            "Client quitting"} |->
        CASE r = "Disconnect requested" -> 0
          [] r = "TCP sub-system error" -> 1
          [] r = "Bad protocol" -> 2
          [] r = "Useless peer" -> 3
          [] r = "Too many peers" -> 4
          [] r = "Already connected" -> 5
          [] r = "Wrong genesis block" -> 6
          [] r = "Incompatible network protocols" -> 7
          [] r = "Client quitting" -> 8]

\* the ids that have a reason: the keys of disconnect_reasons_map_by_id.
disconnect_reasons_map_by_id ==
    {disconnect_reasons_map[r] : r \in DOMAIN disconnect_reasons_map}

SYNCHRONIZATION_TOKEN == 574621841
PROTOCOL_VERSION == 9
NETWORK_ID == 0
\* 'Ethereum(py)/0.0.1'
CLIENT_ID == <<69, 116, 104, 101, 114, 101, 117, 109, 40, 112, 121, 41, 47,
               48, 46, 48, 46, 49>>
CAPABILITIES == 1 + 2 + 4
\* config: network.listen_port and wallet.pub_key
listen_port == 30303
pub_key == <<112, 107>>

\* load_packet: [success, raised, err, cmd, data]. err is the message
\* returned with False: "header" ('check header failed, ...'), "decode"
\* (str(e) of the payload's decoding) or "cmd" ('check cmd failed').
\* raised: the exception of idec(payload[0]) on a list, which leaves
\* load_packet uncaught.
LoadFail(err) == [success |-> FALSE, raised |-> FALSE, err |-> err]

\* load_packet_cmd that leaves the command id in the argument list
load_packet_cmd_keep_id(payload) ==
    IF ~payload.ok THEN LoadFail("decode")
    ELSE IF Len(payload.v.l) = 0 THEN LoadFail("cmd")
    ELSE IF ~IsStr(payload.v.l[1])
         THEN [success |-> FALSE, raised |-> TRUE, err |-> "exception"]
    ELSE IF big_endian_to_int(payload.v.l[1].s) \notin DOMAIN cmd_map
         THEN LoadFail("cmd")
    ELSE [success |-> TRUE, raised |-> FALSE, err |-> "none",
          cmd |-> cmd_map[big_endian_to_int(payload.v.l[1].s)],
          data |-> payload.v.l]

\* load_packet from its check of the decoded payload on
load_packet_cmd(payload) ==
    IF ~payload.ok THEN LoadFail("decode")
    ELSE IF Len(payload.v.l) = 0 THEN LoadFail("cmd")
    ELSE IF ~IsStr(payload.v.l[1])
         THEN [success |-> FALSE, raised |-> TRUE, err |-> "exception"]
    ELSE IF big_endian_to_int(payload.v.l[1].s) \notin DOMAIN cmd_map
         THEN LoadFail("cmd")
    ELSE [success |-> TRUE, raised |-> FALSE, err |-> "none",
          cmd |-> cmd_map[big_endian_to_int(payload.v.l[1].s)],
          data |-> Tail(payload.v.l)]

load_packet(packet) ==
    IF big_endian_to_int(Slice(packet, 0, 4)) # SYNCHRONIZATION_TOKEN
    THEN LoadFail("header")
    ELSE load_packet_cmd(
             lrlp_decode(Slice(packet, 8,
                               8 + big_endian_to_int(Slice(packet, 4, 8)))))

\* what load_cmd makes of the result of load_packet
load_cmd_result(res) ==
    IF ~res.success THEN [raised |-> TRUE]
    ELSE [raised |-> FALSE, cmd |-> res.cmd, data |-> res.data]

\* load_cmd: [raised, cmd, data]
load_cmd(packet) == load_cmd_result(load_packet(packet))

\* the sync token and the length before the payload
frame(payload) ==
    S(int_to_big_endian4(SYNCHRONIZATION_TOKEN)
      \o int_to_big_endian4(Len(payload))
      \o payload)

\* dump_packet: data is a sequence of Python values; the result is a str.
dump_packet(data) == frame(rlp_encode(recursive_int_to_big_endian(L(data))))

dump_Hello ==
    dump_packet(<<I(0), I(PROTOCOL_VERSION), I(NETWORK_ID), S(CLIENT_ID),
                  I(listen_port), I(CAPABILITIES), S(pub_key)>>)

dump_Ping == dump_packet(<<I(2)>>)

\* a reply that repeats the command id of Ping
dump_Pong_as_Ping == dump_packet(<<I(2)>>)

dump_Pong == dump_packet(<<I(3)>>)

\* The payload dump_Disconnect builds; reason is None or a reason name.
dump_Disconnect_payload(reason) ==
    IF reason = "None" THEN <<I(1)>>
    ELSE <<I(1), I(disconnect_reasons_map[reason])>>

\* dump_Disconnect has no return statement: the packet it builds is dropped.
dump_Disconnect(reason) ==
    LET built == dump_packet(dump_Disconnect_payload(reason)) IN None

dump_GetPeers ==
    LET built == dump_packet(<<I(16)>>) IN None

dump_GetTransactions ==
    LET built == dump_packet(<<I(22)>>) IN None

(***************************************************************************)
(* The engine state the handlers read and write, as one record.            *)
(***************************************************************************)
World ==
    [connected_peers |-> connected_peers,
     hello_sent |-> hello_sent,
     hello_received |-> hello_received,
     node_id |-> node_id,
     last_valid_packet_received |-> last_valid_packet_received,
     sent |-> sent,
     calls |-> calls,
     known_peer_addresses |-> known_peer_addresses]

\* the results of a handler: it returned, it raised, or it is inside
\* time.sleep(2) of send_Disconnect.
Returned(w) == [w |-> w, outcome |-> "returned"]
Raised(w) == [w |-> w, outcome |-> "raised"]
Sleeping(w) == [w |-> w, outcome |-> "sleep"]

(***************************************************************************)
(* Collaborators: the peer (transport), the peer manager, the chain        *)
(* manager proxy.                                                          *)
(***************************************************************************)
\* Peer.send_packet(self, packet): queues the one value it is given for
\* the transport; any other number of arguments is a TypeError.
send_packet(w, peer, args) ==
    IF Len(args) # 1 THEN Raised(w)
    ELSE Returned([w EXCEPT !.sent[peer] = Append(@, args[1])])

\* PeerManager.remove_peer
remove_peer(w, peer) ==
    [w EXCEPT !.connected_peers = @ \ {peer}]

\* PeerManager.add_peer_address: the call is recorded and the address joins
\* the known addresses
add_peer_address(w, ip, port, pid) ==
    [w EXCEPT !.calls = Append(@, [f |-> "add_peer_address", ip |-> ip,
                                   port |-> port, pid |-> pid]),
              !.known_peer_addresses =
                  Append(@, [ip |-> ip, port |-> port, pid |-> pid])]

\* PeerManager.get_known_peer_addresses
get_known_peer_addresses(w) == w.known_peer_addresses

\* ChainManagerInProxy.addTransactions
addTransactions(w, data) ==
    [w EXCEPT !.calls = Append(@, [f |-> "addTransactions", data |-> data])]

(***************************************************************************)
(* Text: a Python str of characters is a sequence of ASCII codes.          *)
(***************************************************************************)
Dot == <<46>>

\* str(n) for 0 <= n: the decimal digits of n.
RECURSIVE str_of_int(_)
str_of_int(n) ==
    IF n < 10 THEN <<48 + n>>
    ELSE Append(str_of_int(n \div 10), 48 + (n % 10))

\* '.'.join(parts)
RECURSIVE join_dot(_)
join_dot(parts) ==
    IF Len(parts) = 0 THEN <<>>
    ELSE IF Len(parts) = 1 THEN parts[1]
    ELSE parts[1] \o Dot \o join_dot(Tail(parts))

\* text.split('.')
RECURSIVE split_dot(_, _)
split_dot(text, cur) ==
    IF Len(text) = 0 THEN <<cur>>
    ELSE IF Head(text) = 46 THEN <<cur>> \o split_dot(Tail(text), <<>>)
    ELSE split_dot(Tail(text), Append(cur, Head(text)))

\* int(x) of a string of decimal digits (of a known address: never empty)
RECURSIVE int_of_str(_)
int_of_str(x) ==
    IF Len(x) = 0 THEN 0
    ELSE 10 * int_of_str(SubSeq(x, 1, Len(x) - 1)) + (x[Len(x)] - 48)

(***************************************************************************)
(* Packeter.dump_Peers.                                                    *)
(***************************************************************************)
\* the list dump_Peers builds from a sequence of (ip, port, pid).
dump_Peers_data(peers) ==
    <<I(17)>> \o
    [k \in 1..Len(peers) |->
        LET parts == split_dot(peers[k].ip, <<>>)
            ip == L([j \in 1..Len(parts) |-> S(<<int_of_str(parts[j])>>)])
        IN  L(<<ip, I(peers[k].port), peers[k].pid>>)]

\* dump_Peers returns None on both branches: with peers the packet is built
\* by dump_packet and dropped (no return statement).
dump_Peers(peers) ==
    LET data == dump_Peers_data(peers) IN
    IF Len(data) > 1
    THEN LET built == dump_packet(data) IN None
    ELSE None

\* dump_Transactions: no return statement either. transactions is a list.
dump_Transactions(transactions) ==
    LET built == dump_packet(<<I(18)>> \o transactions.l) IN None

(***************************************************************************)
(* WireProtocol: the sends.                                                *)
(***************************************************************************)
\* peer.hello_sent = True, when the send before it did not raise
then_hello_sent(r, peer) ==
    IF r.outcome = "raised" THEN r
    ELSE Returned([r.w EXCEPT !.hello_sent[peer] = TRUE])

send_Hello(w, peer) == then_hello_sent(send_packet(w, peer, <<dump_Hello>>), peer)

send_Pong(w, peer) == send_packet(w, peer, <<dump_Pong>>)

send_GetTransactions(w, peer) == send_packet(w, peer, <<dump_GetTransactions>>)

\* time.sleep(2), when the send before it did not raise
then_sleep(r) == IF r.outcome = "raised" THEN r ELSE Sleeping(r.w)

\* send_Disconnect up to time.sleep(2): dump_Disconnect is called without
\* the reason, and what it returns is handed to the peer. The rest of the
\* method (remove_peer) is send_Disconnect_wake.
send_Disconnect(w, peer, reason) ==
    then_sleep(send_packet(w, peer, <<dump_Disconnect("None")>>))

\* send_Peers: the packet is never truthy (dump_Peers returns None); the
\* send it guards passes no argument.
\* send_Peers without the check of the packet
send_Peers_unchecked(w, peer) ==
    send_packet(w, peer, <<dump_Peers(get_known_peer_addresses(w))>>)

send_Peers(w, peer) ==
    IF Truthy(dump_Peers(get_known_peer_addresses(w)))
    THEN send_packet(w, peer, <<>>)
    ELSE Returned(w)

(***************************************************************************)
(* WireProtocol: the handlers. data is the sequence of decoded arguments.  *)
(***************************************************************************)
\* "reply with hello if not send": send_packet is given two arguments
_recv_Hello_reply(w, peer) ==
    IF ~w.hello_sent[peer]
    THEN then_hello_sent(send_packet(w, peer, <<[peer |-> peer], dump_Hello>>), peer)
    ELSE Returned(w)

\* _recv_Hello that sets hello_received before it checks compatibility
_recv_Hello_received_first(w, peer, data) ==
    IF Len(data) < 1 \/ ~IsStr(data[1]) THEN Raised(w)
    ELSE IF big_endian_to_int(data[1].s) # PROTOCOL_VERSION
    THEN send_Disconnect([w EXCEPT !.hello_received[peer] = TRUE], peer,
                         "Incompatible network protocols")
    ELSE IF Len(data) < 2 \/ ~IsStr(data[2]) THEN Raised(w)
    ELSE IF big_endian_to_int(data[2].s) # NETWORK_ID
    THEN send_Disconnect([w EXCEPT !.hello_received[peer] = TRUE], peer,
                         "Wrong genesis block")
    ELSE _recv_Hello_reply(
             [w EXCEPT !.hello_received[peer] = TRUE,
                       !.node_id[peer] = IF Len(data) = 6 THEN data[6] ELSE @],
             peer)

_recv_Hello(w, peer, data) ==
    IF Len(data) < 1 \/ ~IsStr(data[1]) THEN Raised(w)
    ELSE IF big_endian_to_int(data[1].s) # PROTOCOL_VERSION
    THEN send_Disconnect(w, peer, "Incompatible network protocols")
    ELSE IF Len(data) < 2 \/ ~IsStr(data[2]) THEN Raised(w)
    ELSE IF big_endian_to_int(data[2].s) # NETWORK_ID
    THEN send_Disconnect(w, peer, "Wrong genesis block")
    ELSE _recv_Hello_reply(
             [w EXCEPT !.hello_received[peer] = TRUE,
                       !.node_id[peer] = IF Len(data) = 6 THEN data[6] ELSE @],
             peer)

_recv_Ping(w, peer, data) == send_Pong(w, peer)

_recv_Pong(w, peer, data) == send_GetTransactions(w, peer)

_recv_Disconnect(w, peer, data) ==
    IF Len(data) > 0
    THEN IF ~IsStr(data[1]) THEN Raised(w)
         ELSE IF big_endian_to_int(data[1].s) \notin disconnect_reasons_map_by_id
         THEN Raised(w)
         ELSE Returned(remove_peer(w, peer))
    ELSE Returned(remove_peer(w, peer))

_recv_GetPeers(w, peer, data) == send_Peers(w, peer)

\* ord(b or '\x00') is defined for a one-character str, and for '' and [].
PeersIpByteOk(b) ==
    \/ IsStr(b) /\ Len(b.s) <= 1
    \/ IsList(b) /\ Len(b.l) = 0

PeersIpByte(b) == IF IsStr(b) /\ Len(b.s) = 1 THEN b.s[1] ELSE 0

\* the loop body with a check that the ip has 4 elements
PeersEntryOk_ip4(entry) ==
    /\ IsList(entry)
    /\ Len(entry.l) = 3
    /\ IsList(entry.l[1])
    /\ Len(entry.l[1].l) = 4
    /\ \A k \in 1..Len(entry.l[1].l) : PeersIpByteOk(entry.l[1].l[k])
    /\ IsStr(entry.l[2])

\* whether the body of the loop of _recv_Peers completes on this entry.
PeersEntryOk(entry) ==
    /\ IsList(entry)
    /\ Len(entry.l) = 3
    /\ IsList(entry.l[1])
    /\ \A k \in 1..Len(entry.l[1].l) : PeersIpByteOk(entry.l[1].l[k])
    /\ IsStr(entry.l[2])

\* '.'.join(str(ord(b or '\x00')) for b in ip)
PeersIp(ip) == join_dot([k \in 1..Len(ip) |-> str_of_int(PeersIpByte(ip[k]))])

RECURSIVE _recv_Peers(_, _, _)
_recv_Peers(w, peer, data) ==
    IF Len(data) = 0 THEN Returned(w)
    ELSE IF ~PeersEntryOk(Head(data)) THEN Raised(w)
    ELSE _recv_Peers(
             add_peer_address(w, PeersIp(Head(data).l[1].l),
                              big_endian_to_int(Head(data).l[2].s),
                              Head(data).l[3]),
             peer, Tail(data))

\* self.chain_requester is never set: the handler raises before any call.
_recv_Blocks(w, peer, data) == Raised(w)

_recv_Transactions(w, peer, data) == Returned(addTransactions(w, data))

\* _recv_GetTransactions(self, peer) is called with (peer, data): TypeError.
_recv_GetTransactions(w, peer, data) == Raised(w)

(***************************************************************************)
(* WireProtocol.recv_packet, up to its return or to the sleep of           *)
(* send_Disconnect. The result also names the handler that was invoked.    *)
(***************************************************************************)
HandlerNames ==
    {"Hello", "Ping", "Pong", "Disconnect", "GetPeers", "Peers", "Blocks",
     "Transactions", "GetTransactions"}

hasattr_recv(cmd) == cmd \in HandlerNames

dispatch(cmd, w, peer, data) ==
    CASE cmd = "Hello" -> _recv_Hello(w, peer, data)
      [] cmd = "Ping" -> _recv_Ping(w, peer, data)
      [] cmd = "Pong" -> _recv_Pong(w, peer, data)
      [] cmd = "Disconnect" -> _recv_Disconnect(w, peer, data)
      [] cmd = "GetPeers" -> _recv_GetPeers(w, peer, data)
      [] cmd = "Peers" -> _recv_Peers(w, peer, data)
      [] cmd = "Blocks" -> _recv_Blocks(w, peer, data)
      [] cmd = "Transactions" -> _recv_Transactions(w, peer, data)
      [] cmd = "GetTransactions" -> _recv_GetTransactions(w, peer, data)

\* r, with the handler that produced it, the path taken to it and d, what
\* load_cmd made of the buffer; fault: whether that handler raised. recv_packet has no try around the handler
\* call, so that it ends as the handler ends.
Via(r, handler, via, d) ==
    [w |-> r.w, outcome |-> r.outcome, handler |-> handler, via |-> via,
     fault |-> (via = "handler" /\ r.outcome = "raised"), decoded |-> d]

\* recv_packet from the result d of load_cmd on
\* recv_packet that disconnects on a command without a handler
recv_packet_cmd_no_handler_disconnect(w, peer, d, t) ==
    IF d.raised
    THEN Via(send_Disconnect(w, peer, "Bad protocol"), "none", "decode", d)
    ELSE IF ~hasattr_recv(d.cmd)
    THEN Via(send_Disconnect([w EXCEPT !.last_valid_packet_received[peer] = t],
                             peer, "Incompatible network protocols"),
             "none", "ignored", d)
    ELSE Via(dispatch(d.cmd, [w EXCEPT !.last_valid_packet_received[peer] = t],
                      peer, d.data),
             d.cmd, "handler", d)

recv_packet_cmd(w, peer, d, t) ==
    IF d.raised
    THEN Via(send_Disconnect(w, peer, "Bad protocol"), "none", "decode", d)
    ELSE IF ~hasattr_recv(d.cmd)
    THEN Via(Returned([w EXCEPT !.last_valid_packet_received[peer] = t]),
             "none", "ignored", d)
    ELSE Via(dispatch(d.cmd, [w EXCEPT !.last_valid_packet_received[peer] = t],
                      peer, d.data),
             d.cmd, "handler", d)


(***************************************************************************)
(* WireProtocol: the commands of the chain manager.                        *)
(***************************************************************************)
\* the id of a peer, as a command of the chain manager names it
Id(name) == [id |-> name]

\* PeerManager.get_peer_by_id: the connected peer of that id, or None
get_peer_by_id(w, peer_id) ==
    IF peer_id.id \in w.connected_peers THEN peer_id ELSE None

\* Peer.send_transaction: the peer has send_packet and no method of this
\* name, the attribute lookup raises.
send_transaction(w, peer, args) == Raised(w)

send_Transactions(w, peer, transactions) ==
    send_transaction(w, peer, <<dump_Transactions(transactions)>>)

RECURSIVE _broadcast(_, _, _)
\* for peer in connected_peers: method(peer, data), the only method given
\* being send_Transactions. peers is connected_peers in the order of the
\* iteration; an exception of the method ends the loop.
_broadcast(w, peers, data) ==
    IF Len(peers) = 0 THEN Returned(w)
    ELSE IF send_Transactions(w, Head(peers), data).outcome = "raised"
         THEN Raised(send_Transactions(w, Head(peers), data).w)
         ELSE _broadcast(send_Transactions(w, Head(peers), data).w,
                         Tail(peers), data)

\* self.send_GetChain: WireProtocol has no attribute of this name, and the
\* lookup raises before _broadcast is called with one argument too many.
broadcast_send_GetChain(w, count, parents_H) == Raised(w)

\* the body of the loop of send_chain_out_cmd for one command,
\* <<cmd, data[0], data[1]>>; peers is connected_peers in iteration order.
send_chain_out_cmd_body(w, peers, command) ==
    IF command[1] = "send_transactions"
    THEN IF ~IsNone(get_peer_by_id(w, command[3]))
         THEN send_Transactions(w, get_peer_by_id(w, command[3]).id, command[2])
         ELSE _broadcast(w, peers, command[2])
    ELSE IF command[1] = "get_chain"
    THEN IF Truthy(command[2]) /\ Len(command[3].l) > 0
         THEN broadcast_send_GetChain(w, command[2], command[3])
         ELSE Returned(w)
    ELSE Raised(w)

(***************************************************************************)
(* Inputs: the buffers a peer may send.                                     *)
(***************************************************************************)
GoodIp == L(<<I(6), I(204), I(10), I(41)>>)
\* 3 elements; the 0 travels as the empty string
ShortIp == L(<<I(10), I(0), I(3)>>)
PeerId(n) == S(<<110, n>>)
PeersEntry(ip, n) == L(<<ip, I(30303), PeerId(n)>>)

\* payloads [command id, arguments...], framed by dump_packet below
InboundPayloads ==
    << <<I(0), I(9), I(0), S(<<99>>), I(30303), I(7), PeerId(1)>>,
       <<I(0), I(9), I(0), S(<<99>>), I(30303), I(7)>>,
       <<I(0), I(8), I(0), S(<<99>>), I(30303), I(7)>>,
       <<I(0), I(8), I(1), S(<<99>>), I(30303), I(7)>>,
       <<I(0), I(9), I(1), S(<<99>>), I(30303), I(7)>>,
       <<I(0), I(9)>>,
       <<I(1)>>,
       <<I(1), I(8)>>,
       <<I(1), I(9)>>,
       <<I(2)>>,
       <<I(3)>>,
       <<I(16)>>,
       <<I(17)>>,
       <<I(17), PeersEntry(GoodIp, 1)>>,
       <<I(17), PeersEntry(ShortIp, 1), PeersEntry(GoodIp, 2)>>,
       <<I(17), PeersEntry(GoodIp, 1), L(<<GoodIp, I(30303)>>), PeersEntry(GoodIp, 2)>>,
       <<I(18), L(<<S(<<116>>)>>)>>,
       <<I(19), L(<<S(<<98>>)>>)>>,
       <<I(20)>>,
       <<I(21)>>,
       <<I(22)>>,
       <<I(4)>>,
       <<>>,
       <<L(<<>>)>> >>

SyncBytes == int_to_big_endian4(SYNCHRONIZATION_TOKEN)

\* buffers that are not the framing of a payload list: a wrong sync token,
\* a list header announcing more bytes than follow, a payload that is a
\* bare string
RawBuffers ==
    { <<34, 64, 8, 146, 0, 0, 0, 2, 193, 2>>,
      SyncBytes \o <<0, 0, 0, 2, 195, 2>>,
      SyncBytes \o <<0, 0, 0, 1, 2>> }

InboundPackets ==
    {dump_packet(InboundPayloads[k]).s : k \in DOMAIN InboundPayloads}
        \cup RawBuffers

(***************************************************************************)
(* WireProtocol.recv_packet.                                               *)
(***************************************************************************)
\* self.packeter.load_cmd(packet), for each of the packets received
load_cmd_of == [packet \in InboundPackets |-> load_cmd(packet)]

recv_packet(w, peer, packet, t) ==
    recv_packet_cmd(w, peer, load_cmd_of[packet], t)

(***************************************************************************)
(* The state machine.                                                      *)
(***************************************************************************)
\* a call that decodes no buffer
NotDecoded == [raised |-> FALSE, cmd |-> "none", data |-> <<>>]

NoCall ==
    [op |-> "none", packet |-> <<>>, handler |-> "none", via |-> "none",
     fault |-> FALSE, decoded |-> NotDecoded, outcome |-> "none",
     start |-> 0, end |-> 0]

\* no call of send_chain_out_cmd yet
NoDrain == [state |-> "idle", took |-> <<>>, before |-> <<>>, puts |-> 0]

\* the Packeter was given nothing yet
NoCodec ==
    [op |-> "none", cmd_id |-> 0, args |-> <<>>, buffer |-> <<>>,
     result |-> LoadFail("none")]

SetWorld(w) ==
    /\ connected_peers' = w.connected_peers
    /\ hello_sent' = w.hello_sent
    /\ hello_received' = w.hello_received
    /\ node_id' = w.node_id
    /\ last_valid_packet_received' = w.last_valid_packet_received
    /\ sent' = w.sent
    /\ calls' = w.calls
    /\ known_peer_addresses' = w.known_peer_addresses

\* every peer of Peers is connected, with a fresh session, and no peer
\* address is known yet
Constructed ==
        /\ connected_peers = Peers
        /\ hello_sent = [p \in Peers |-> FALSE]
        /\ hello_received = [p \in Peers |-> FALSE]
        /\ node_id = [p \in Peers |-> None]
        /\ last_valid_packet_received = [p \in Peers |-> 0]
        /\ sent = [p \in Peers |-> <<>>]
        /\ calls = <<>>
        /\ known_peer_addresses = <<>>
        /\ now = 0
        /\ pc = [p \in Peers |-> "idle"]
        /\ wake = [p \in Peers |-> 0]
        /\ call = [p \in Peers |-> NoCall]
        /\ last = [op |-> "none", peer |-> "none"]
        /\ pre = [connected_peers |-> Peers,
                  hello_sent |-> [p \in Peers |-> FALSE],
                  hello_received |-> [p \in Peers |-> FALSE],
                  node_id |-> [p \in Peers |-> None],
                  last_valid_packet_received |-> [p \in Peers |-> 0],
                  sent |-> [p \in Peers |-> <<>>],
                  calls |-> <<>>,
                  known_peer_addresses |-> <<>>]
        /\ steps = 0
        /\ out_queue = <<>>
        /\ drain = NoDrain

Init == Constructed /\ codec = NoCodec

\* the thread of peer p runs r, the result of an engine call
Run(p, op, packet, r) ==
    /\ SetWorld(r.w)
    /\ pc' = [pc EXCEPT ![p] = IF r.outcome = "sleep" THEN "sleep" ELSE "idle"]
    /\ wake' = [wake EXCEPT ![p] = IF r.outcome = "sleep" THEN now + 2 ELSE @]
    /\ call' = [call EXCEPT ![p] =
                   [op |-> op, packet |-> packet, handler |-> r.handler,
                    via |-> r.via, fault |-> r.fault, decoded |-> r.decoded,
                    outcome |-> r.outcome,
                    start |-> now,
                    end |-> now]]
    /\ last' = [op |-> op, peer |-> p]
    /\ pre' = World
    /\ steps' = steps + 1
    /\ now' = now
    /\ UNCHANGED <<out_queue, drain, codec>>

\* one thread for all the peers and for send_chain_out_cmd
ThreadFree_one_thread(t) == \A q \in Peers : pc[q] = "idle"

\* the thread t can take a step. Every peer has a thread of its own, which
\* cannot while it is inside time.sleep(2); send_chain_out_cmd is called on
\* another thread.
ThreadFree(t) == t \in Peers => pc[t] = "idle"

\* the peer's thread hands a received buffer to recv_packet
RecvPacket(p, packet) ==
    /\ steps < MaxSteps
    /\ p \in connected_peers
    /\ ThreadFree(p)
    /\ \E r \in {recv_packet(World, p, packet, now)} :
          Run(p, "recv_packet", packet, r)

\* on connect the peer's thread calls send_Hello
OnConnect(p) ==
    /\ steps < MaxSteps
    /\ p \in connected_peers
    /\ ThreadFree(p)
    /\ ~hello_sent[p]
    /\ Run(p, "send_Hello", <<>>, Via(send_Hello(World, p), "none", "none", NotDecoded))

\* time.sleep(2) returns and send_Disconnect goes on to remove_peer
send_Disconnect_wake(p) ==
    /\ pc[p] = "sleep"
    /\ now >= wake[p]
    /\ SetWorld(remove_peer(World, p))
    /\ pc' = [pc EXCEPT ![p] = "idle"]
    /\ call' = [call EXCEPT ![p].outcome = "returned", ![p].end = now]
    /\ last' = [op |-> "send_Disconnect_wake", peer |-> p]
    /\ pre' = World
    /\ UNCHANGED <<wake, now, steps, out_queue, drain, codec>>

\* time passes: up to MaxTime while a call can still be made, and as long
\* as a thread is inside a time.sleep(2) that has not elapsed
Tick ==
    /\ \/ now < MaxTime /\ steps < MaxSteps
       \/ \E p \in Peers : pc[p] = "sleep" /\ now < wake[p]
    /\ now' = now + 1
    /\ last' = [op |-> "tick", peer |-> "none"]
    /\ pre' = World
    /\ UNCHANGED <<connected_peers, hello_sent, hello_received, node_id,
                   last_valid_packet_received, sent, calls,
                   known_peer_addresses, pc, wake, call, steps,
                   out_queue, drain, codec>>

Next ==
    \/ \E p \in Peers : \E packet \in InboundPackets : RecvPacket(p, packet)
    \/ \E p \in Peers : OnConnect(p)
    \/ \E p \in Peers : send_Disconnect_wake(p)
    \/ Tick

Spec == Init /\ [][Next]_vars

(***************************************************************************)
(* The engine with the commands of the chain manager: commands are put on  *)
(* chain_manager_out_proxy and send_chain_out_cmd takes them, while the    *)
(* threads of the peers receive packets.                                   *)
(***************************************************************************)
Txs == L(<<S(<<116, 120>>)>>)
Parents == L(<<S(<<104>>)>>)

\* commands <<cmd, data[0], data[1]>>: p1 is a peer of Peers, p9 the id of
\* no peer
OutCommands ==
    { <<"send_transactions", Txs, Id("p1")>>,
      <<"send_transactions", Txs, Id("p9")>>,
      <<"get_chain", I(1), Parents>>,
      <<"get_chain", I(0), Parents>>,
      <<"get_chain", I(1), L(<<>>)>>,
      <<"get_blocks", I(1), Parents>> }

\* the packet received meanwhile: a wrong sync token, after which
\* send_Disconnect sleeps and removes the peer
DrainInbound ==
    { <<34, 64, 8, 146, 0, 0, 0, 2, 193, 2>> }

\* the orders in which a loop can go through peers
Orders(peers) ==
    {o \in [1..Cardinality(peers) -> peers] :
        \A i, j \in 1..Cardinality(peers) : i # j => o[i] # o[j]}

\* the chain manager puts a command on chain_manager_out_proxy
add_cmd(command) ==
    /\ drain.puts < MaxPuts
    /\ out_queue' = Append(out_queue, command)
    /\ drain' = [drain EXCEPT !.puts = @ + 1]
    /\ last' = [op |-> "add_cmd", peer |-> "none"]
    /\ pre' = World
    /\ UNCHANGED <<connected_peers, hello_sent, hello_received, node_id,
                   last_valid_packet_received, sent, calls,
                   known_peer_addresses, now, pc, wake, call, steps, codec>>

\* send_chain_out_cmd is called
send_chain_out_cmd_call ==
    /\ ThreadFree("chain_out")
    /\ drain.state # "running"
    /\ drain' = [drain EXCEPT !.state = "running"]
    /\ last' = [op |-> "send_chain_out_cmd_call", peer |-> "none"]
    /\ pre' = World
    /\ UNCHANGED <<connected_peers, hello_sent, hello_received, node_id,
                   last_valid_packet_received, sent, calls,
                   known_peer_addresses, now, pc, wake, call, steps,
                   out_queue, codec>>

\* what the call goes on as after the body of the loop ended with outcome
DrainState(outcome) == IF outcome = "raised" THEN "raised" ELSE "running"

\* one turn of the loop of send_chain_out_cmd: get_next_cmd gives nothing
\* and the call returns, or it gives the head of the queue, which is acted
\* on; an exception ends the call
send_chain_out_cmd(peers) ==
    /\ ThreadFree("chain_out")
    /\ drain.state = "running"
    /\ IF Len(out_queue) = 0
       THEN /\ drain' = [drain EXCEPT !.state = "returned", !.took = <<>>,
                                      !.before = out_queue]
            /\ UNCHANGED <<connected_peers, hello_sent, hello_received,
                           node_id, last_valid_packet_received, sent, calls,
                           known_peer_addresses, out_queue>>
       ELSE \E r \in {send_chain_out_cmd_body(World, peers, Head(out_queue))} :
            /\ out_queue' = Tail(out_queue)
            /\ SetWorld(r.w)
            /\ drain' = [drain EXCEPT !.state = DrainState(r.outcome),
                                      !.took = Head(out_queue),
                                      !.before = out_queue]
    /\ last' = [op |-> "send_chain_out_cmd", peer |-> "none"]
    /\ pre' = World
    /\ UNCHANGED <<now, pc, wake, call, steps, codec>>

NextDrain ==
    \/ \E command \in OutCommands : add_cmd(command)
    \/ send_chain_out_cmd_call
    \/ \E peers \in Orders(connected_peers) : send_chain_out_cmd(peers)
    \/ \E p \in Peers : \E packet \in DrainInbound : RecvPacket(p, packet)
    \/ \E p \in Peers : send_Disconnect_wake(p)
    \/ Tick

SpecDrain == Init /\ [][NextDrain]_vars

(***************************************************************************)
(* Vocabulary of the properties.                                           *)
(***************************************************************************)
\* peer p made the latest step, a call of recv_packet
JustReceived(p) == last.op = "recv_packet" /\ last.peer = p

\* what load_cmd made of the buffer of p's current / last recv_packet
Decoded(p) == call[p].decoded

\* p's current / last call is recv_packet of a buffer that decodes to cmd
ReceivedCmd(p, cmd) ==
    /\ call[p].op = "recv_packet"
    /\ ~Decoded(p).raised
    /\ Decoded(p).cmd = cmd

\* p's current / last call is recv_packet of a buffer that fails to decode
ReceivedUndecodable(p) ==
    /\ call[p].op = "recv_packet"
    /\ Decoded(p).raised

\* x, a value handed to a transport, is a packet that decodes to cmd, data
IsPacket(x, cmd, data) ==
    /\ IsStr(x)
    /\ ~load_cmd(x.s).raised
    /\ load_cmd(x.s).cmd = cmd
    /\ load_cmd(x.s).data = data

\* the latest value handed to the transport of p is the packet cmd, data
LastSentIs(p, cmd, data) ==
    /\ Len(sent[p]) > 0
    /\ IsPacket(sent[p][Len(sent[p])], cmd, data)

\* the latest step handed the transport of p exactly one value, x
HandedOne(p, x) == sent[p] = Append(pre.sent[p], x)

\* the latest step handed nothing to the transport of any peer but p
OthersUntouched(p) == \A q \in Peers \ {p} : sent[q] = pre.sent[q]

\* the version and the network id of a Hello with both fields
HelloHasFields(d) ==
    /\ Len(d.data) >= 2
    /\ IsStr(d.data[1])
    /\ IsStr(d.data[2])
HelloVersion(d) == big_endian_to_int(d.data[1].s)
HelloNetwork(d) == big_endian_to_int(d.data[2].s)
HelloCompatible(d) ==
    /\ HelloHasFields(d)
    /\ HelloVersion(d) = 9
    /\ HelloNetwork(d) = 0

(***************************************************************************)
(* C1..C10.                                                                *)
(***************************************************************************)

\* C1: when the buffer of a recv_packet fails to decode, no handler is
\* invoked, the peer's transport is handed a Disconnect packet with payload
\* [0x01, 0x02] (nothing else), the call does not raise, and when it returns
\* that peer, and only that peer, has left the connected-peer set.
C1_BadProtocolDisconnect ==
    \A p \in Peers :
        ReceivedUndecodable(p) =>
            /\ call[p].handler = "none"
            /\ call[p].outcome # "raised"
            /\ LastSentIs(p, "Disconnect", <<S(<<2>>)>>)
            /\ JustReceived(p) =>
                   /\ HandedOne(p, sent[p][Len(sent[p])])
                   /\ OthersUntouched(p)
            /\ call[p].outcome = "returned" => p \notin connected_peers
            /\ (last.op = "send_Disconnect_wake" /\ last.peer = p) =>
                   connected_peers = pre.connected_peers \ {p}

\* C2: a Hello whose version is not 9 is answered with a Disconnect of
\* reason 0x07 whatever its network id; one with version 9 and a network id
\* other than 0 with a Disconnect of reason 0x06; in both cases the peer has
\* left the connected-peer set when the call returns.
C2_HelloMismatchDisconnect ==
    \A p \in Peers :
        (ReceivedCmd(p, "Hello") /\ HelloHasFields(Decoded(p))) =>
            /\ HelloVersion(Decoded(p)) # 9 =>
                   /\ LastSentIs(p, "Disconnect", <<S(<<7>>)>>)
                   /\ call[p].outcome = "returned" => p \notin connected_peers
            /\ (HelloVersion(Decoded(p)) = 9 /\ HelloNetwork(Decoded(p)) # 0) =>
                   /\ LastSentIs(p, "Disconnect", <<S(<<6>>)>>)
                   /\ call[p].outcome = "returned" => p \notin connected_peers

\* C3: after a Hello with version 9 and network id 0 is received,
\* hello_received and hello_sent are both true and the handler has returned
\* without a fault; exactly one Hello packet was handed to the peer's
\* transport if hello_sent was false before, and nothing if it was true.
C3_HelloReply ==
    \A p \in Peers :
        (JustReceived(p) /\ ReceivedCmd(p, "Hello")
            /\ HelloCompatible(Decoded(p))) =>
            /\ call[p].outcome = "returned"
            /\ hello_received[p]
            /\ hello_sent[p]
            /\ IF pre.hello_sent[p]
               THEN sent[p] = pre.sent[p]
               ELSE HandedOne(p, dump_Hello)
            /\ OthersUntouched(p)

\* C4: receiving a Ping hands the peer's transport exactly one packet, the
\* Pong with payload [0x03], and nothing else: no packet to any other peer,
\* the handshake flags, the connected-peer set and the collaborators'
\* call log are as before, and the call returns.
C4_PingPong ==
    \A p \in Peers :
        (JustReceived(p) /\ ReceivedCmd(p, "Ping")) =>
            /\ HandedOne(p, S(<<34, 64, 8, 145, 0, 0, 0, 2, 193, 3>>))
            /\ LastSentIs(p, "Pong", <<>>)
            /\ OthersUntouched(p)
            /\ hello_sent = pre.hello_sent
            /\ hello_received = pre.hello_received
            /\ node_id = pre.node_id
            /\ connected_peers = pre.connected_peers
            /\ calls = pre.calls
            /\ known_peer_addresses = pre.known_peer_addresses
            /\ call[p].outcome = "returned"

\* C4 witness: a Ping has just been received and answered, while the other
\* peer had been handed something before.
C4_Witness ==
    \E p \in Peers :
        /\ JustReceived(p)
        /\ ReceivedCmd(p, "Ping")
        /\ Len(sent[p]) = Len(pre.sent[p]) + 1
        /\ \E q \in Peers \ {p} : Len(pre.sent[q]) > 0

\* C5: when GetPeers is received and at least one peer address is known,
\* the requesting peer's transport is handed exactly one Peers packet, with
\* one [ip, port, node id] entry per known address.
C5_GetPeersReply ==
    \A p \in Peers :
        (JustReceived(p) /\ ReceivedCmd(p, "GetPeers")
            /\ Len(pre.known_peer_addresses) > 0) =>
            /\ Len(sent[p]) = Len(pre.sent[p]) + 1
            /\ HandedOne(p, dump_packet(dump_Peers_data(pre.known_peer_addresses)))
            /\ LastSentIs(p, "Peers",
                          Tail(recursive_int_to_big_endian(
                                   L(dump_Peers_data(pre.known_peer_addresses))).l))

\* C6: when GetPeers is received and no peer address is known, nothing is
\* handed to the transport of any peer.
C6_GetPeersEmpty ==
    \A p \in Peers :
        (JustReceived(p) /\ ReceivedCmd(p, "GetPeers")
            /\ Len(pre.known_peer_addresses) = 0) =>
            sent = pre.sent

\* C6 witness: GetPeers has just been received with no address known.
C6_Witness ==
    \E p \in Peers :
        /\ JustReceived(p)
        /\ ReceivedCmd(p, "GetPeers")
        /\ Len(pre.known_peer_addresses) = 0
        /\ call[p].outcome = "returned"

\* the add_peer_address call that forwards entry e of a Peers message
ForwardOf(e) ==
    [f |-> "add_peer_address",
     ip |-> PeersIp(e.l[1].l),
     port |-> big_endian_to_int(e.l[2].s),
     pid |-> e.l[3]]

\* e is a 3-element entry with a list of bytes as ip and a string as port
PeersEntryShaped(e) ==
    /\ IsList(e)
    /\ Len(e.l) = 3
    /\ IsList(e.l[1])
    /\ \A k \in 1..Len(e.l[1].l) : PeersIpByteOk(e.l[1].l[k])
    /\ IsStr(e.l[2])

\* the entries of data that have an ip of exactly 4 elements, in order
RECURSIVE Ip4Forwards(_)
Ip4Forwards(data) ==
    IF Len(data) = 0 THEN <<>>
    ELSE IF PeersEntryShaped(Head(data)) /\ Len(Head(data).l[1].l) = 4
         THEN <<ForwardOf(Head(data))>> \o Ip4Forwards(Tail(data))
         ELSE Ip4Forwards(Tail(data))

\* the number of entries of data before the first that is not shaped
ShapedPrefix(data) ==
    IF \A k \in 1..Len(data) : PeersEntryShaped(data[k]) THEN Len(data)
    ELSE (CHOOSE k \in 1..Len(data) :
              /\ ~PeersEntryShaped(data[k])
              /\ \A j \in 1..(k - 1) : PeersEntryShaped(data[j])) - 1

\* C7 (as claimed): a received Peers message makes exactly one
\* add_peer_address call for each entry whose ip has exactly 4 elements, in
\* message order, and none for any other entry; an entry that is rejected
\* does not keep the entries after it from being forwarded.
C7_PeersPerEntry ==
    \A p \in Peers :
        (JustReceived(p) /\ ReceivedCmd(p, "Peers")) =>
            calls = pre.calls \o Ip4Forwards(Decoded(p).data)

\* C7 (amended): a received Peers message makes one add_peer_address call
\* (ip as the decimal values of its elements joined by dots, port as a
\* big-endian integer, node id) for each entry in message order, whatever
\* the number of elements of its ip, up to the first entry that is not a
\* 3-element list with a list of bytes as ip and a string as port; at that
\* entry the handler raises and no later entry is forwarded. Without such
\* an entry the handler returns.
C7_PeersUpToFirstMalformed ==
    \A p \in Peers :
        (JustReceived(p) /\ ReceivedCmd(p, "Peers")) =>
            /\ calls = pre.calls \o
                   [k \in 1..ShapedPrefix(Decoded(p).data) |->
                       ForwardOf(Decoded(p).data[k])]
            /\ call[p].outcome =
                   IF ShapedPrefix(Decoded(p).data) = Len(Decoded(p).data)
                   THEN "returned" ELSE "raised"
            /\ Decoded(p).data = <<L(<<L(<<S(<<6>>), S(<<204>>), S(<<10>>), S(<<41>>)>>),
                                      S(<<118, 95>>), S(<<110, 1>>)>>)>> =>
                   calls = Append(pre.calls,
                                  [f |-> "add_peer_address",
                                   ip |-> <<54, 46, 50, 48, 52, 46, 49, 48, 46, 52, 49>>,
                                   port |-> 30303,
                                   pid |-> S(<<110, 1>>)])
            /\ sent = pre.sent

\* C7 witness: a Peers message whose first entry has a 3-element ip and
\* whose second entry is well formed has just been handled, and both
\* entries were forwarded, the first as '10.0.3'.
C7_Witness ==
    \E p \in Peers :
        /\ JustReceived(p)
        /\ ReceivedCmd(p, "Peers")
        /\ Len(Decoded(p).data) = 2
        /\ Len(Decoded(p).data[1].l[1].l) = 3
        /\ Len(calls) = Len(pre.calls) + 2
        /\ calls[Len(pre.calls) + 1].ip = <<49, 48, 46, 48, 46, 51>>

\* C7 witness of the abort: a Peers message whose second entry has only 2
\* elements has just been handled; the first entry was forwarded, the third
\* was not, and the handler raised.
C7_WitnessAbort ==
    \E p \in Peers :
        /\ JustReceived(p)
        /\ ReceivedCmd(p, "Peers")
        /\ Len(Decoded(p).data) = 3
        /\ Len(calls) = Len(pre.calls) + 1
        /\ call[p].outcome = "raised"

\* C8: receiving a Disconnect always removes the sender from the
\* connected-peer set and returns, whether the reason is absent, known or
\* not in the reason table, and hands nothing to any transport.
C8_RecvDisconnectRemoves ==
    \A p \in Peers :
        (JustReceived(p) /\ ReceivedCmd(p, "Disconnect")) =>
            /\ call[p].outcome = "returned"
            /\ p \notin connected_peers
            /\ sent = pre.sent

\* C9: no fault of a handler leaves recv_packet: a recv_packet whose
\* handler faults returns to its caller, and the peer is handed a
\* Disconnect packet with reason 0x02.
C9_NoFaultEscapes ==
    \A p \in Peers :
        (call[p].op = "recv_packet" /\ call[p].fault) =>
            /\ call[p].outcome # "raised"
            /\ LastSentIs(p, "Disconnect", <<S(<<2>>)>>)

\* C10: in every send_Disconnect an encoded Disconnect packet is handed to
\* the peer's transport first; the peer stays in the connected-peer set
\* while the grace period runs and is removed no earlier than 2 time units
\* after the packet was handed over.
C10_DisconnectThenGrace ==
    \A p \in Peers :
        /\ pc[p] = "sleep" =>
               /\ p \in connected_peers
               /\ Len(sent[p]) > 0
               /\ IsStr(sent[p][Len(sent[p])])
               /\ ~load_cmd(sent[p][Len(sent[p])].s).raised
               /\ load_cmd(sent[p][Len(sent[p])].s).cmd = "Disconnect"
        /\ (last.op = "send_Disconnect_wake" /\ last.peer = p) =>
               /\ p \in pre.connected_peers
               /\ p \notin connected_peers
               /\ now >= call[p].start + 2
               /\ sent = pre.sent



(***************************************************************************)
(* The Packeter on its own: dump_packet and load_packet are applied to     *)
(* inputs drawn from CodecInputs.                                          *)
(***************************************************************************)
\* a byte string of 56 bytes, which takes the long form of the encoding
LongStr == S([k \in 1..56 |-> k])

\* argument lists: byte strings, integers and nested lists
CodecArgs ==
    { <<>>,
      <<S(<<>>)>>,
      <<S(<<5>>)>>,
      <<S(<<200>>)>>,
      <<S(<<1, 2, 3>>)>>,
      <<S(<<1>>), S(<<2>>)>>,
      <<L(<<>>)>>,
      <<L(<<S(<<7>>), L(<<S(<<8, 9>>)>>)>>)>>,
      <<LongStr>>,
      <<I(0)>>,
      <<I(9)>>,
      <<S(<<4>>), I(30303)>>,
      <<L(<<I(1), S(<<4>>)>>)>> }

\* a buffer that starts with the sync token and the length of payload
Framed(payload) == SyncBytes \o int_to_big_endian4(Len(payload)) \o payload

\* buffers: sync tokens that differ from SYNCHRONIZATION_TOKEN in one byte
\* or in length, before a payload that is otherwise a Ping; payloads that
\* are an empty list, a first element outside cmd_map (one byte, two
\* bytes, a list), a 2-byte first element that is a command id, a bare
\* string, a truncated list, and a length larger than what follows
CodecBuffers ==
    { <<>>,
      <<34, 64, 8>>,
      <<34, 64, 8, 146, 0, 0, 0, 2, 193, 2>>,
      <<34, 64, 9, 145, 0, 0, 0, 2, 193, 2>>,
      <<34, 65, 8, 145, 0, 0, 0, 2, 193, 2>>,
      <<35, 64, 8, 145, 0, 0, 0, 2, 193, 2>>,
      <<0, 34, 64, 8, 145, 0, 0, 0, 2, 193, 2>>,
      <<0, 0, 0, 0>>,
      SyncBytes,
      Framed(<<>>),
      Framed(<<192>>),
      Framed(<<193, 4>>),
      Framed(<<193, 15>>),
      Framed(<<193, 23>>),
      Framed(<<194, 129, 255>>),
      Framed(<<195, 130, 1, 0>>),
      Framed(<<195, 130, 0, 2>>),
      Framed(<<194, 193, 2>>),
      Framed(<<193, 192>>),
      Framed(<<2>>),
      Framed(<<4>>),
      Framed(<<195, 2>>),
      Framed(<<193, 2, 7>>),
      SyncBytes \o <<0, 0, 0, 9, 193, 2>> }

CodecInputs ==
    {[op |-> "input", cmd_id |-> id, args |-> args, buffer |-> <<>>,
      result |-> LoadFail("none")] : id \in DOMAIN cmd_map, args \in CodecArgs}
    \cup
    {[op |-> "buffer", cmd_id |-> 0, args |-> <<>>, buffer |-> b,
      result |-> LoadFail("none")] : b \in CodecBuffers}

InitCodec == Constructed /\ codec \in CodecInputs

\* what load_packet makes of buffer
Loaded(op, buffer) == [codec EXCEPT !.op = op, !.buffer = buffer,
                                    !.result = load_packet(buffer)]

\* load_packet(dump_packet([cmd_id] + args))
DumpLoad ==
    /\ codec.op = "input"
    /\ codec' = Loaded("dump_load", dump_packet(<<I(codec.cmd_id)>> \o codec.args).s)
    /\ UNCHANGED <<connected_peers, hello_sent, hello_received, node_id,
                   last_valid_packet_received, sent, calls,
                   known_peer_addresses, now, pc, wake, call, last, pre,
                   steps, out_queue, drain>>

\* load_packet(buffer)
Load ==
    /\ codec.op = "buffer"
    /\ codec' = Loaded("load", codec.buffer)
    /\ UNCHANGED <<connected_peers, hello_sent, hello_received, node_id,
                   last_valid_packet_received, sent, calls,
                   known_peer_addresses, now, pc, wake, call, last, pre,
                   steps, out_queue, drain>>

NextCodec == DumpLoad \/ Load

SpecCodec == InitCodec /\ [][NextCodec]_vars


\* the packet of [cmd_id] + args was loaded
RoundTripped == codec.op = "dump_load"

\* the packet was loaded as the command of cmd_id
RoundTripName ==
    /\ codec.result.success
    /\ codec.result.cmd = cmd_map[codec.cmd_id]

\* C11 as stated: decoding the packet made of [command_id] ++ args gives
\* the command's name and an argument list equal to args.
C11_RoundTripEqual ==
    RoundTripped =>
        /\ RoundTripName
        /\ codec.result.data = codec.args

\* C11, amended: decoding the packet made of [command_id] ++ args gives
\* the command's name and args with every integer, at any depth, replaced
\* by its shortest big-endian byte string (0 by the empty string).
C11_RoundTripBigEndian ==
    RoundTripped =>
        /\ RoundTripName
        /\ codec.result.data = recursive_int_to_big_endian(L(codec.args)).l

\* a packet with an integer inside a nested list made the round trip
C11_Witness ==
    /\ RoundTripped
    /\ codec.args = <<L(<<I(1), S(<<4>>)>>)>>
    /\ codec.result.success
    /\ codec.result.data = <<L(<<S(<<1>>), S(<<4>>)>>)>>

\* load_packet was applied to codec.buffer
WasLoaded == codec.op \in {"load", "dump_load"}

\* the first 4 bytes of the buffer, as an integer
BufferToken == big_endian_to_int(Slice(codec.buffer, 0, 4))

\* the payload of the buffer, decoded
BufferPayload ==
    lrlp_decode(Slice(codec.buffer, 8,
                      8 + big_endian_to_int(Slice(codec.buffer, 4, 8))))

\* v is one of the 11 command ids
IsCommandId(v) == IsStr(v) /\ big_endian_to_int(v.s) \in DOMAIN cmd_map

\* the payload decodes to a list that starts with a command id
StartsWithCommandId(payload) ==
    IF ~payload.ok THEN FALSE
    ELSE IF Len(payload.v.l) = 0 THEN FALSE
    ELSE IsCommandId(payload.v.l[1])

\* C12: load_packet returns the header (framing) error for every buffer
\* whose first 4 bytes are not the sync token, returns the 'check cmd
\* failed' (unknown command) error for every well-framed packet whose
\* payload list is empty or starts with a value that is not one of the 11
\* ids, and returns a command name only when the token matches, the
\* payload decodes and its first element is one of the 11 ids; the name is
\* then cmd_map's name of that id.
C12_LoadPacketRejects ==
    WasLoaded =>
        /\ BufferToken # SYNCHRONIZATION_TOKEN
               => codec.result = LoadFail("header")
        /\ ( /\ BufferToken = SYNCHRONIZATION_TOKEN
             /\ BufferPayload.ok
             /\ ~StartsWithCommandId(BufferPayload) )
               => codec.result = LoadFail("cmd")
        /\ codec.result.success
               => /\ BufferToken = SYNCHRONIZATION_TOKEN
                  /\ StartsWithCommandId(BufferPayload)
                  /\ codec.result.cmd =
                         cmd_map[big_endian_to_int(BufferPayload.v.l[1].s)]

(***************************************************************************)
(* The commands of the chain manager.                                      *)
(***************************************************************************)
\* the latest step was a turn of the loop of send_chain_out_cmd
JustDrained == last.op = "send_chain_out_cmd"

\* the latest step took a command from the queue and acted on it
Took == JustDrained /\ drain.state # "returned"

\* the command taken by the latest step
LastTaken == drain.took

\* the packets of the commands
TransactionsPacket(txs) == dump_packet(<<I(18)>> \o txs.l)

\* x, a value handed to a transport, is a packet of command cmd
IsPacketOf(x, cmd) ==
    /\ IsStr(x)
    /\ ~load_cmd(x.s).raised
    /\ load_cmd(x.s).cmd = cmd

\* C13: when send_chain_out_cmd takes send_transactions(tx_list, peer_id),
\* then if peer_id is the id of a connected peer exactly one Transactions
\* packet carrying tx_list is handed to that peer's transport and nothing
\* to any other peer; otherwise exactly one such packet is handed to the
\* transport of every connected peer.
C13_SendTransactions ==
    (Took /\ LastTaken[1] = "send_transactions") =>
        IF LastTaken[3].id \in pre.connected_peers
        THEN /\ HandedOne(LastTaken[3].id, TransactionsPacket(LastTaken[2]))
             /\ OthersUntouched(LastTaken[3].id)
        ELSE \A p \in Peers :
                IF p \in pre.connected_peers
                THEN HandedOne(p, TransactionsPacket(LastTaken[2]))
                ELSE sent[p] = pre.sent[p]

\* C14: when send_chain_out_cmd takes get_chain(count, parent_hashes),
\* then if count > 0 and parent_hashes is not empty exactly one GetChain
\* packet is handed to the transport of every connected peer and the loop
\* goes on; otherwise nothing is sent and the state does not change.
C14_GetChain ==
    (Took /\ LastTaken[1] = "get_chain") =>
        IF LastTaken[2].i > 0 /\ Len(LastTaken[3].l) > 0
        THEN /\ \A p \in Peers :
                    IF p \in pre.connected_peers
                    THEN /\ Len(sent[p]) = Len(pre.sent[p]) + 1
                         /\ SubSeq(sent[p], 1, Len(pre.sent[p])) = pre.sent[p]
                         /\ IsPacketOf(sent[p][Len(sent[p])], "GetChain")
                    ELSE sent[p] = pre.sent[p]
             /\ drain.state = "running"
        ELSE /\ World = pre
             /\ drain.state = "running"

\* the loop of send_chain_out_cmd can take its next turn
CanDrain == ENABLED (\E peers \in Orders(connected_peers) : send_chain_out_cmd(peers))

\* C15: a call of send_chain_out_cmd never waits for a command; every
\* turn of its loop takes the command at the head of the queue, so that
\* the commands are taken once each in the order they were put; the call
\* returns only with the queue empty; and it ends with an exception
\* exactly when the command it took is neither send_transactions nor
\* get_chain.
C15_DrainEnds ==
    /\ drain.state = "running" => CanDrain
    /\ Took => (LastTaken = Head(drain.before) /\ out_queue = Tail(drain.before))
    /\ (JustDrained /\ drain.state = "returned") =>
          (Len(drain.before) = 0 /\ Len(out_queue) = 0)
    /\ JustDrained =>
          ( drain.state = "raised"
              <=> (Took /\ LastTaken[1] \notin {"send_transactions", "get_chain"}) )

(***************************************************************************)
(* Commands without a handler.                                             *)
(***************************************************************************)
\* the commands of cmd_map that have no _recv_ method
NoHandler == {cmd_map[x] : x \in DOMAIN cmd_map} \ HandlerNames

\* C16: a well-formed packet of a command of cmd_map without a handler
\* (GetChain, NotInChain) is ignored: nothing is handed to any transport,
\* no Disconnect is started, the peer stays connected and nothing of the
\* state changes but that peer's last_valid_packet_received.
C16_NoHandlerIgnored ==
    \A p \in Peers : \A cmd \in {"GetChain", "NotInChain"} :
        (JustReceived(p) /\ ReceivedCmd(p, cmd)) =>
            /\ cmd \in NoHandler
            /\ sent = pre.sent
            /\ call[p].outcome = "returned"
            /\ pc[p] = "idle"
            /\ p \in connected_peers
            /\ connected_peers = pre.connected_peers
            /\ hello_sent = pre.hello_sent
            /\ hello_received = pre.hello_received
            /\ node_id = pre.node_id
            /\ calls = pre.calls
            /\ known_peer_addresses = pre.known_peer_addresses
            /\ \A q \in Peers \ {p} :
                  last_valid_packet_received[q] = pre.last_valid_packet_received[q]

\* a GetChain packet was received and only the time of the last valid
\* packet changed
C16_Witness ==
    /\ JustReceived("p1")
    /\ ReceivedCmd("p1", "GetChain")
    /\ call["p1"].via = "ignored"
    /\ pre.last_valid_packet_received["p1"] = 0
    /\ last_valid_packet_received["p1"] = 1

(***************************************************************************)
(* The grace period of send_Disconnect and the other threads.              *)
(***************************************************************************)
\* the thread of q can be handed a packet
CanReceive(q) == ENABLED (\E packet \in DrainInbound : RecvPacket(q, packet))

\* send_chain_out_cmd can be called
CanCallDrain == ENABLED send_chain_out_cmd_call

C17_WitnessDrain ==
    /\ pc["p1"] = "sleep"
    /\ now < wake["p1"]
    /\ Took

(***************************************************************************)
(* A broadcast while peers are removed.                                    *)
(***************************************************************************)
\* the latest step took a send_transactions command for the id of no
\* connected peer and went through _broadcast. The method called for the
\* first peer raises, so that the loop makes one call at most, and a peer
\* removed by another thread meanwhile is a peer removed before or after
\* this step.
Broadcast ==
    /\ Took
    /\ LastTaken[1] = "send_transactions"
    /\ LastTaken[3].id \notin pre.connected_peers

\* C18: a broadcast of send_chain_out_cmd, with the threads of the peers
\* removing peers before and after, hands the packet exactly once to every
\* peer that is connected throughout, more than once to no peer, and its
\* loop over the peers does not fail.
C18_BroadcastOnceEach ==
    Broadcast =>
        /\ \A p \in pre.connected_peers \cap connected_peers :
              HandedOne(p, TransactionsPacket(LastTaken[2]))
        /\ \A p \in Peers : Len(sent[p]) <= Len(pre.sent[p]) + 1
        /\ drain.state # "raised"

(***************************************************************************)
(* The handshake.                                                          *)
(***************************************************************************)
\* C19: a peer from which no Hello was received is sent nothing but Hello
\* and Disconnect: no Pong, Peers, GetTransactions or Transactions packet
\* is among what was handed to its transport.
C19_OnlyHelloBeforeHello ==
    \A p \in Peers :
        ~hello_received[p] =>
            \A k \in 1..Len(sent[p]) :
                \A cmd \in {"Pong", "Peers", "GetTransactions", "Transactions"} :
                    ~IsPacketOf(sent[p][k], cmd)

\* the Hello d has a version or, the version being the local one, a
\* network id that is not the expected one
HelloMismatch(d) ==
    /\ Len(d.data) >= 1
    /\ IsStr(d.data[1])
    /\ \/ HelloVersion(d) # PROTOCOL_VERSION
       \/ /\ Len(d.data) >= 2
          /\ IsStr(d.data[2])
          /\ HelloNetwork(d) # NETWORK_ID

\* the latest step left the handshake state of every peer as it was
HandshakeUnchanged ==
    /\ hello_received = pre.hello_received
    /\ hello_sent = pre.hello_sent
    /\ node_id = pre.node_id

\* C20: hello_received of a peer becomes true only by recv_packet of a
\* Hello from that peer whose version is PROTOCOL_VERSION and whose network
\* id is NETWORK_ID; a Hello rejected for either mismatch and a packet that
\* does not decode leave hello_received, hello_sent and node_id as they
\* were; and no step resets a hello_received or hello_sent that is true.
C20_HandshakeFlags ==
    \A p \in Peers :
        /\ (hello_received[p] /\ ~pre.hello_received[p]) =>
              /\ JustReceived(p)
              /\ ReceivedCmd(p, "Hello")
              /\ HelloCompatible(Decoded(p))
        /\ (JustReceived(p) /\ ReceivedUndecodable(p)) => HandshakeUnchanged
        /\ (JustReceived(p) /\ ReceivedCmd(p, "Hello") /\ HelloMismatch(Decoded(p)))
              => HandshakeUnchanged
        /\ pre.hello_received[p] => hello_received[p]
        /\ pre.hello_sent[p] => hello_sent[p]

\* a Hello of another version was received from a peer whose compatible
\* Hello had been received before
C20_Witness ==
    /\ JustReceived("p1")
    /\ ReceivedCmd("p1", "Hello")
    /\ HelloMismatch(Decoded("p1"))
    /\ pre.hello_received["p1"]
    /\ hello_received["p1"]

\* a compatible Hello was received and hello_received became true
C20_WitnessReceived ==
    /\ JustReceived("p1")
    /\ ReceivedCmd("p1", "Hello")
    /\ HelloCompatible(Decoded("p1"))
    /\ ~pre.hello_received["p1"]
    /\ hello_received["p1"]
=============================================================================
